---- MODULE Spec2Model ----
(***************************************************************************)
(* fontGit: the per-repository cache (RepoCache) and the read-only         *)
(* filesystem view of one commit (GitCommitFS) of src/fontGit/utils.py,    *)
(* over a model of the git backend they read.                              *)
(*                                                                         *)
(* Paths are sequences of segments; an absolute path is the sequence of    *)
(* its segments from "/".  A path handed to a GitCommitFS operation is a   *)
(* record [abs, segs].  Commit ids (hexsha) are 1, 2, ...: the position of *)
(* the commit in the repository's object store; 0 stands for None.         *)
(* bytes are strings; Optional[bytes] is <<>> (None) or <<bytes>>.         *)
(***************************************************************************)
EXTENDS Integers, Sequences, FiniteSets, TLC

VARIABLES
    gitdb,                  \* backend: per repository root, its commits and HEAD
    worktree,               \* on-disk working copy of each repository
    PATH_2_GITROOT,         \* utils.py:15
    GITROOT_2_CACHED_REPO,  \* utils.py:16 (root -> index into heap)
    heap,                   \* the RepoCache instances ever created
    views,                  \* the GitCommitFS instances ever created
    handle,                 \* path -> the instance the last RepoCache(path) returned
    born,                   \* view -> its commitsha and answers when constructed
    cache_lock,             \* _cache_lock: the thread that holds it, or None
    threads,                \* thread -> its position in the call it is making
    layerset,               \* the LayerSet of the font: _layers, _defaultLayer, _reader
    ret                     \* the last call: operation, arguments, outcome

vars == <<gitdb, worktree, PATH_2_GITROOT, GITROOT_2_CACHED_REPO, heap, views,
          handle, born, cache_lock, threads, layerset, ret>>

\* ------------------------------------------------------------------ bounds

MaxCommits == 2     \* commits a repository's history may hold
MaxViews == 1       \* GitCommitFS instances created in a run
NumThreads == 2     \* threads that call the cache
MaxCalls == 1       \* get_commit_by_index calls of a thread
MaxCached == 1      \* entries of _file_data (blob cache) populated in a run

None == 0

\* ------------------------------------------------------------------- paths

Max(a, b) == IF a >= b THEN a ELSE b

IsPrefix(p, q) == Len(p) <= Len(q) /\ SubSeq(q, 1, Len(p)) = p

RECURSIVE normpath(_)
normpath(segs) ==
    IF segs = <<>> THEN <<>>
    ELSE LET front == normpath(SubSeq(segs, 1, Len(segs) - 1))
             last == segs[Len(segs)]
         IN  IF last = "." THEN front
             ELSE IF last = ".."
                  THEN IF front = <<>> THEN <<>>
                       ELSE SubSeq(front, 1, Len(front) - 1)
                  ELSE Append(front, last)

os_path_join(base, path) == IF path.abs THEN path.segs ELSE base \o path.segs

os_path_basename(path) ==
    IF path.segs = <<>> THEN "" ELSE path.segs[Len(path.segs)]

CommonLen(p, s) ==
    CHOOSE i \in 0..Len(p) :
        /\ i <= Len(s)
        /\ SubSeq(p, 1, i) = SubSeq(s, 1, i)
        /\ \A j \in (i + 1)..Len(p) :
               j <= Len(s) => SubSeq(p, 1, j) # SubSeq(s, 1, j)

os_path_relpath(path, start) ==
    LET p == normpath(path)
        s == normpath(start)
        i == CommonLen(p, s)
        rel == [k \in 1..(Len(s) - i) |-> ".."] \o SubSeq(p, i + 1, Len(p))
    IN  IF rel = <<>> THEN <<".">> ELSE rel

\* ------------------------------------------------------------------- trees
\* A commit's tree, flat: file path (relative to the root) -> bytes.
\* Directories are the proper prefixes of the file paths (git stores no
\* empty directory).

T1 == (<<"d", "f">> :> "x") @@ (<<"g">> :> "")
T2 == (<<"d", "f">> :> "y") @@ (<<"d", "g">> :> "x") @@ (<<"g">> :> "")
T3 == (<<"d">> :> "x") @@ (<<"h">> :> "z")

TreeSet == {T1, T2, T3}

\* Working copies: as committed, d replaced by a file, d deleted.
T4 == (<<"h">> :> "z")
WorkTrees == {T1, T3, T4}

\* The names of the entries of directory dir of tree t (a git.Tree's _cache).
EntryNames(t, dir) ==
    {q[Len(dir) + 1] : q \in {q \in DOMAIN t : Len(q) > Len(dir) /\ IsPrefix(dir, q)}}

ItemType(t, p) == IF p \in DOMAIN t THEN "blob" ELSE "tree"

\* git.Tree.join (tree / path): one lookup per token, a KeyError for a
\* missing name ("." and ".." are no entry of any tree) and for a blob
\* met before the last token.
RECURSIVE TreeJoinFrom(_, _, _)
TreeJoinFrom(t, dir, tokens) ==
    LET token == Head(tokens)
        item == Append(dir, token)
    IN  IF token \notin EntryNames(t, dir)
        THEN [type |-> "KeyError", path |-> item]
        ELSE IF Len(tokens) = 1
             THEN [type |-> ItemType(t, item), path |-> item]
             ELSE IF ItemType(t, item) = "tree"
                  THEN TreeJoinFrom(t, item, Tail(tokens))
                  ELSE [type |-> "KeyError", path |-> item]

TreeJoin(t, tokens) ==
    IF tokens = <<>> THEN [type |-> "KeyError", path |-> <<>>]
    ELSE TreeJoinFrom(t, <<>>, tokens)

\* ----------------------------------------------------------------- backend

REPO_ROOTS == {<<"r">>, <<"s">>}

\* A path exists on disk: a repository root, a directory above one, or a file
\* or directory of the repository's working copy; or the directory /z, which
\* is in no repository.
OnDisk(path) ==
    LET p == normpath(path)
    IN  \/ p = <<"z">>
        \/ \E root \in REPO_ROOTS :
              \/ IsPrefix(p, root)
              \/ /\ IsPrefix(root, p)
                 /\ \E q \in DOMAIN worktree[root] : IsPrefix(p, root \o q)

\* git.Repo(path, search_parent_directories=True).working_dir: the nearest
\* enclosing repository root; <<>> when the constructor raises
\* (NoSuchPathError, InvalidGitRepositoryError).
git_Repo(path) ==
    LET p == normpath(path)
        found == {root \in REPO_ROOTS : IsPrefix(root, p)}
    IN  IF ~OnDisk(path) \/ found = {} THEN <<>>
        ELSE CHOOSE root \in found : \A o \in found : Len(o) <= Len(root)

Commits(root) == gitdb[root].commits

\* repo.commit(rev): rev None is HEAD; 0 when the lookup raises.
repo_commit(root, rev) ==
    IF rev = None THEN gitdb[root].head
    ELSE IF rev \in 1..Len(Commits(root)) THEN rev ELSE None

commit_tree(root, c) == Commits(root)[c].tree
commit_parents(root, c) == Commits(root)[c].parents

\* repo.iter_commits(max_count=1): the commit at HEAD, or nothing.
\* repo.iter_commits(all=True): every commit reachable from a ref, newest
\* first.
RECURSIVE Ancestors(_, _)
Ancestors(root, c) ==
    IF c = None THEN {}
    ELSE {c} \cup UNION {Ancestors(root, p) : p \in
                            {commit_parents(root, c)[i] :
                                i \in 1..Len(commit_parents(root, c))}}

RECURSIVE NewestFirst(_)
NewestFirst(S) ==
    IF S = {} THEN <<>>
    ELSE LET m == CHOOSE x \in S : \A y \in S : y <= x
         IN  <<m>> \o NewestFirst(S \ {m})

iter_commits_all(root) == NewestFirst(Ancestors(root, gitdb[root].head))

Reverse(s) == [i \in 1..Len(s) |-> s[Len(s) + 1 - i]]

\* repo.iter_commits(since=sha): sha is handed to git as a date
\* (rev-list --since=<date>), so which commits of HEAD's history count as
\* newer depends on how git reads the hex digits as a date: any newest-first
\* prefix of the history may come back.
iter_commits_since(root) ==
    LET hist == NewestFirst(Ancestors(root, gitdb[root].head))
    IN  {SubSeq(hist, 1, k) : k \in 0..Len(hist)}

\* --------------------------------------------------------------- RepoCache

Put(f, k, v) == [x \in DOMAIN f \cup {k} |-> IF x = k THEN v ELSE f[x]]

EmptyMap == [x \in {} |-> 0]

\* object.__new__(cls) with _repo and _root set (utils.py:94-96); the
\* attributes of __init__ are not there yet (hasattr(self, "_commits") is
\* False).
NewObject(root) ==
    [root |-> root, inited |-> FALSE, commits |-> <<>>, file_data |-> EmptyMap,
     changed_files |-> EmptyMap, commit_cache |-> EmptyMap,
     latest_commit |-> None, tree_cache |-> EmptyMap]

\* __new__ without the test "root not in GITROOT_2_CACHED_REPO": a new
\* instance for every path not seen before.
RepoCache_new_unchecked(path) ==
    LET known == path \in DOMAIN PATH_2_GITROOT
        root == IF known THEN PATH_2_GITROOT[path] ELSE git_Repo(path)
        heap1 == Append(heap, NewObject(root))
    IN  IF known
        THEN [exc |-> "", obj |-> GITROOT_2_CACHED_REPO[root], opened |-> FALSE,
              p2g |-> PATH_2_GITROOT, g2c |-> GITROOT_2_CACHED_REPO, heap |-> heap]
        ELSE IF root = <<>>
        THEN [exc |-> "Exception", obj |-> None, opened |-> TRUE,
              p2g |-> PATH_2_GITROOT, g2c |-> GITROOT_2_CACHED_REPO, heap |-> heap]
        ELSE [exc |-> "", obj |-> Len(heap1), opened |-> TRUE,
              p2g |-> Put(PATH_2_GITROOT, path, root),
              g2c |-> Put(GITROOT_2_CACHED_REPO, root, Len(heap1)), heap |-> heap1]

\* __new__ that never looks the path up in PATH_2_GITROOT: the backend is
\* opened on every construction.
RepoCache_new_always_opens(path) ==
    LET root == git_Repo(path)
        create == root \notin DOMAIN GITROOT_2_CACHED_REPO
        heap1 == IF create THEN Append(heap, NewObject(root)) ELSE heap
        g2c1 == IF create THEN Put(GITROOT_2_CACHED_REPO, root, Len(heap1))
                ELSE GITROOT_2_CACHED_REPO
    IN  IF root = <<>>
        THEN [exc |-> "Exception", obj |-> None, opened |-> TRUE,
              p2g |-> PATH_2_GITROOT, g2c |-> GITROOT_2_CACHED_REPO, heap |-> heap]
        ELSE [exc |-> "", obj |-> g2c1[root], opened |-> TRUE,
              p2g |-> Put(PATH_2_GITROOT, path, root), g2c |-> g2c1, heap |-> heap1]

\* __new__ that registers the instance under the path it was given instead
\* of under the root.
RepoCache_new_keyed_by_path(path) ==
    LET known == path \in DOMAIN PATH_2_GITROOT
        root == IF known THEN PATH_2_GITROOT[path] ELSE git_Repo(path)
        create == path \notin DOMAIN GITROOT_2_CACHED_REPO
        heap1 == IF create THEN Append(heap, NewObject(root)) ELSE heap
        g2c1 == IF create THEN Put(GITROOT_2_CACHED_REPO, path, Len(heap1))
                ELSE GITROOT_2_CACHED_REPO
    IN  IF known
        THEN [exc |-> "", obj |-> GITROOT_2_CACHED_REPO[path], opened |-> FALSE,
              p2g |-> PATH_2_GITROOT, g2c |-> GITROOT_2_CACHED_REPO, heap |-> heap]
        ELSE IF root = <<>>
        THEN [exc |-> "Exception", obj |-> None, opened |-> TRUE,
              p2g |-> PATH_2_GITROOT, g2c |-> GITROOT_2_CACHED_REPO, heap |-> heap]
        ELSE [exc |-> "", obj |-> g2c1[path], opened |-> TRUE,
              p2g |-> Put(PATH_2_GITROOT, path, root), g2c |-> g2c1, heap |-> heap1]

\* RepoCache.__new__(cls, path), the body under _cache_lock: the outcome
\* [exc, obj, opened, p2g, g2c, heap]; opened tells whether git.Repo ran.
RepoCache_new(path) ==
    LET known == path \in DOMAIN PATH_2_GITROOT
        root == IF known THEN PATH_2_GITROOT[path] ELSE git_Repo(path)
        create == root \notin DOMAIN GITROOT_2_CACHED_REPO
        heap1 == IF create THEN Append(heap, NewObject(root)) ELSE heap
        g2c1 == IF create THEN Put(GITROOT_2_CACHED_REPO, root, Len(heap1))
                ELSE GITROOT_2_CACHED_REPO
    IN  IF known
        THEN [exc |-> "", obj |-> GITROOT_2_CACHED_REPO[root], opened |-> FALSE,
              p2g |-> PATH_2_GITROOT, g2c |-> GITROOT_2_CACHED_REPO, heap |-> heap]
        ELSE IF root = <<>>
        THEN [exc |-> "Exception", obj |-> None, opened |-> TRUE,
              p2g |-> PATH_2_GITROOT, g2c |-> GITROOT_2_CACHED_REPO, heap |-> heap]
        ELSE [exc |-> "", obj |-> g2c1[root], opened |-> TRUE,
              p2g |-> Put(PATH_2_GITROOT, path, root), g2c |-> g2c1, heap |-> heap1]

\* _update_commits with the first enumeration reversed (oldest first).
update_commits_oldest_first(rc) ==
    LET latest_commit == gitdb[rc.root].head
    IN  IF latest_commit # rc.latest_commit
        THEN IF rc.latest_commit # None
             THEN {[rc EXCEPT !.commits = @ \o Reverse(new_commits),
                              !.latest_commit = latest_commit] :
                      new_commits \in iter_commits_since(rc.root)}
             ELSE {[rc EXCEPT !.commits = @ \o Reverse(iter_commits_all(rc.root)),
                              !.latest_commit = latest_commit]}
        ELSE {rc}

\* _update_commits with the new commits put in front of the log.
update_commits_prepend(rc) ==
    LET latest_commit == gitdb[rc.root].head
    IN  IF latest_commit # rc.latest_commit
        THEN IF rc.latest_commit # None
             THEN {[rc EXCEPT !.commits = new_commits \o @,
                              !.latest_commit = latest_commit] :
                      new_commits \in iter_commits_since(rc.root)}
             ELSE {[rc EXCEPT !.commits = @ \o iter_commits_all(rc.root),
                              !.latest_commit = latest_commit]}
        ELSE {rc}

\* RepoCache._update_commits: the instances rc may become.
update_commits(rc) ==
    LET latest_commit == gitdb[rc.root].head
    IN  IF latest_commit # rc.latest_commit
        THEN IF rc.latest_commit # None
             THEN {[rc EXCEPT !.commits = @ \o Reverse(new_commits),
                              !.latest_commit = latest_commit] :
                      new_commits \in iter_commits_since(rc.root)}
             ELSE {[rc EXCEPT !.commits = @ \o iter_commits_all(rc.root),
                              !.latest_commit = latest_commit]}
        ELSE {rc}

\* RepoCache.__init__(self, path): the instances self may become.
RepoCache_init(rc) ==
    IF rc.inited THEN {rc}
    ELSE update_commits([rc EXCEPT !.inited = TRUE, !.commits = <<>>,
                                   !.file_data = EmptyMap,
                                   !.changed_files = EmptyMap,
                                   !.commit_cache = EmptyMap,
                                   !.latest_commit = None,
                                   !.tree_cache = EmptyMap])

\* RepoCache(path): __new__ then __init__ on what it returned.  The set of
\* outcomes [exc, obj, opened, p2g, g2c, heap].
RepoCache(path) ==
    LET n == RepoCache_new(path)
    IN  IF n.exc # "" THEN {n}
        ELSE {[n EXCEPT !.heap = [n.heap EXCEPT ![n.obj] = rc]] :
                 rc \in RepoCache_init(n.heap[n.obj])}

get_rel_path(rc, abs_path) == os_path_relpath(abs_path, rc.root)

\* Each cache operation below yields [rc, val, io]: the instance after the
\* call, the value returned, and the number of reads of the backend
\* (self._repo) the call made.  With(x, F) is F(x), x evaluated once.

With(x, F(_)) == CHOOSE y \in {F(z) : z \in {x}} : TRUE

\* get_file_contents_at_commit that takes a cached None for a miss.
get_file_contents_uncached_none(rc, commit_hash, file_path) ==
    With(<<commit_hash, get_rel_path(rc, file_path)>>, LAMBDA key :
        IF key \notin DOMAIN rc.file_data \/ rc.file_data[key] = <<>>
        THEN With(TreeJoin(commit_tree(rc.root, commit_hash), key[2]), LAMBDA obj :
                 IF obj.type = "blob"
                 THEN With(<<commit_tree(rc.root, commit_hash)[obj.path]>>,
                           LAMBDA data :
                               [rc |-> [rc EXCEPT !.file_data = Put(@, key, data)],
                                val |-> data, io |-> 3])
                 ELSE [rc |-> [rc EXCEPT !.file_data = Put(@, key, <<>>)],
                       val |-> <<>>, io |-> 2])
        ELSE [rc |-> rc, val |-> rc.file_data[key], io |-> 0])

get_file_contents_at_commit(rc, commit_hash, file_path) ==
    With(<<commit_hash, get_rel_path(rc, file_path)>>, LAMBDA key :
        IF key \notin DOMAIN rc.file_data
        THEN With(TreeJoin(commit_tree(rc.root, commit_hash), key[2]), LAMBDA obj :
                 IF obj.type = "blob"
                 THEN With(<<commit_tree(rc.root, commit_hash)[obj.path]>>,
                           LAMBDA data :
                               [rc |-> [rc EXCEPT !.file_data = Put(@, key, data)],
                                val |-> data, io |-> 3])
                 ELSE [rc |-> [rc EXCEPT !.file_data = Put(@, key, <<>>)],
                       val |-> <<>>, io |-> 2])
        ELSE [rc |-> rc, val |-> rc.file_data[key], io |-> 0])

get_commit_by_hash(rc, commit_hash) ==
    IF commit_hash \notin DOMAIN rc.commit_cache
    THEN [rc |-> [rc EXCEPT !.commit_cache =
                       Put(@, commit_hash, Commits(rc.root)[commit_hash])],
          val |-> Commits(rc.root)[commit_hash], io |-> 1]
    ELSE [rc |-> rc, val |-> rc.commit_cache[commit_hash], io |-> 0]

get_tree_by_commit_hash(rc, commit_hash) ==
    IF commit_hash \notin DOMAIN rc.tree_cache
    THEN With(get_commit_by_hash(rc, commit_hash), LAMBDA c :
             [rc |-> [c.rc EXCEPT !.tree_cache = Put(@, commit_hash, c.val.tree)],
              val |-> c.val.tree, io |-> c.io + 1])
    ELSE [rc |-> rc, val |-> rc.tree_cache[commit_hash], io |-> 0]

path_is_directory(rc, commit_hash, path) ==
    With(get_tree_by_commit_hash(rc, commit_hash), LAMBDA t :
        [rc |-> t.rc,
         val |-> TreeJoin(t.val, get_rel_path(rc, path)).type = "tree",
         io |-> t.io])

list_tree_paths(rc, commit_hash, path) ==
    With(get_rel_path(rc, path), LAMBDA rel :
    With(get_tree_by_commit_hash(rc, commit_hash), LAMBDA t :
    With(IF rel # <<>> THEN TreeJoin(t.val, rel)
         ELSE [type |-> "tree", path |-> <<>>], LAMBDA sub_tree :
        [rc |-> t.rc,
         val |-> IF sub_tree.type = "tree" THEN EntryNames(t.val, sub_tree.path)
                 ELSE {},
         io |-> t.io])))

path_exists_in_tree(rc, commit_hash, path) ==
    With(get_tree_by_commit_hash(rc, commit_hash), LAMBDA t :
        [rc |-> t.rc,
         val |-> TreeJoin(t.val, get_rel_path(rc, path)).type # "KeyError",
         io |-> t.io])

\* ---------------------------------------------------------- backend diffs

Range(f) == {f[x] : x \in DOMAIN f}

\* a.diff(b, find_renames=True, find_copies=True) of two trees (git diff-tree
\* -r -M --find-renames --find-copies): the diff lists git may report, each
\* a set of [change_type, a_path, b_path].  A created path with the content
\* of a deleted one is its rename (each deleted path renamed once); another
\* created path with the old content of a path changed or deleted in the
\* same diff is a copy.
tree_diff(old, new) ==
    LET deleted == DOMAIN old \ DOMAIN new
        created == DOMAIN new \ DOMAIN old
        changed == {q \in DOMAIN old \cap DOMAIN new : old[q] # new[q]}
        pairings == UNION {[S -> deleted] : S \in SUBSET created}
        IsRenaming(m) ==
            /\ \A c \in DOMAIN m : new[c] = old[m[c]]
            /\ \A c1, c2 \in DOMAIN m : m[c1] = m[c2] => c1 = c2
            /\ \A c \in created \ DOMAIN m, d \in deleted \ Range(m) :
                   new[c] # old[d]
        sources(c) == {a \in changed \cup deleted : old[a] = new[c]}
        entries(m) ==
            {[change_type |-> "R", a_path |-> m[c], b_path |-> c] : c \in DOMAIN m}
            \cup {[change_type |-> "D", a_path |-> d, b_path |-> <<>>] :
                     d \in deleted \ Range(m)}
            \cup {[change_type |-> "M", a_path |-> q, b_path |-> q] : q \in changed}
            \cup {IF sources(c) # {}
                  THEN [change_type |-> "C", a_path |-> CHOOSE a \in sources(c) : TRUE,
                        b_path |-> c]
                  ELSE [change_type |-> "A", a_path |-> <<>>, b_path |-> c] :
                     c \in created \ DOMAIN m}
    IN  {entries(m) : m \in {m \in pairings : IsRenaming(m)}}

\* commit.tree.diff(git.Tree.NULL_TREE): git diff-tree <tree> --root -r is
\* handed a tree where it wants a commit, prints an error and lists nothing.
null_tree_diff(t) == {{}}

\* repo.index.diff(None): the index (the tree of HEAD) against the working
\* copy; files git does not track are not listed.
index_diff(root) ==
    LET index == IF gitdb[root].head = None THEN EmptyMap
                 ELSE commit_tree(root, gitdb[root].head)
        work == worktree[root]
    IN  {[new_file |-> FALSE, deleted_file |-> q \notin DOMAIN work,
          a_path |-> q, b_path |-> q] :
            q \in {q \in DOMAIN index : q \notin DOMAIN work \/ work[q] # index[q]}}

NoChanges == [added |-> {}, removed |-> {}, modified |-> {}]

\* The loop over the diffs of a commit, with renames taken for changes of
\* the new path.
classify_rename_modified(diffs) ==
    [added |-> {d.b_path : d \in {d \in diffs : d.change_type = "A"}},
     removed |-> {d.a_path : d \in {d \in diffs : d.change_type = "D"}},
     modified |-> {IF d.b_path # <<>> THEN d.b_path ELSE d.a_path :
         d \in {d \in diffs : d.change_type \notin {"A", "D"}}}]

\* The loop over the diffs of a commit (utils.py:227-236): "A" is added, "D"
\* is removed, "R" is removed and added, everything else is modified.
classify(diffs) ==
    [added |-> {d.b_path : d \in
         {d \in diffs : d.change_type \in {"A", "R"}}},
     removed |-> {d.a_path : d \in
         {d \in diffs : d.change_type \in {"D", "R"}}},
     modified |-> {IF d.b_path # <<>> THEN d.b_path ELSE d.a_path :
         d \in {d \in diffs : d.change_type \notin {"A", "D", "R"}}}]

\* RepoCache.get_changed_files_paths_by_commit_hash: the outcomes
\* [rc, val, io].  The lists of paths are kept as sets.
get_changed_files_paths_by_commit_hash(rc, commit_hash) ==
    IF commit_hash = None
    THEN LET diffs == index_diff(rc.root)
         IN  {[rc |-> rc,
               val |-> [added |-> {d.b_path : d \in {d \in diffs : d.new_file}},
                        removed |-> {d.a_path : d \in
                            {d \in diffs : ~d.new_file /\ d.deleted_file}},
                        modified |-> {d.a_path : d \in
                            {d \in diffs : ~d.new_file /\ ~d.deleted_file}}],
               io |-> 1]}
    ELSE IF commit_hash \notin DOMAIN rc.changed_files
    THEN LET parents == commit_parents(rc.root, commit_hash)
             parent == IF parents # <<>> THEN parents[1] ELSE None
             tree == commit_tree(rc.root, commit_hash)
             outputs == IF parent # None
                        THEN tree_diff(commit_tree(rc.root, parent), tree)
                        ELSE null_tree_diff(tree)
             changes(diffs) == classify(diffs)
         IN  {[rc |-> [rc EXCEPT !.changed_files =
                           Put(@, commit_hash, changes(diffs))],
               val |-> changes(diffs), io |-> 2] : diffs \in outputs}
    ELSE {[rc |-> rc, val |-> NoChanges, io |-> 0]}

\* get_commit_by_index with Python's own list indexing: a negative index
\* counts from the end of the log.
get_commit_by_index_wraps(rc, index) ==
    {IF -Len(u.commits) <= index /\ index < Len(u.commits)
     THEN LET i == IF index < 0 THEN Len(u.commits) + index + 1 ELSE index + 1
          IN  [rc |-> u, exc |-> "", val |-> u.commits[i], io |-> 1]
     ELSE [rc |-> u, exc |-> "IndexError", val |-> None, io |-> 1] :
        u \in update_commits(rc)}

\* RepoCache.get_commit_by_index: the outcomes [rc, exc, val, io].
get_commit_by_index(rc, index) ==
    {IF 0 <= index /\ index < Len(u.commits)
     THEN LET c == get_commit_by_hash(u, u.commits[index + 1])
          IN  [rc |-> c.rc, exc |-> "", val |-> u.commits[index + 1],
               io |-> c.io + 1]
     ELSE [rc |-> u, exc |-> "IndexError", val |-> None, io |-> 1] :
        u \in update_commits(rc)}

\* -------------------------------------------------------------- GitCommitFS

\* A view that resolves "latest" at every read.
commitsha_latest(v) ==
    gitdb[CHOOSE root \in REPO_ROOTS : IsPrefix(root, normpath(v.base_path))].head

\* GitCommitFS.commitsha / every read of self._commit_sha.
commitsha(v) == v.commit_sha

\* GitCommitFS.__init__(path, commit_sha): the outcomes
\* [exc, view, p2g, g2c, heap].
GitCommitFS(path, commit_sha) ==
    {LET sha == IF n.exc = "" THEN repo_commit(n.heap[n.obj].root, commit_sha)
                ELSE None
     IN  [exc |-> IF n.exc # "" THEN n.exc
                  ELSE IF sha = None THEN "BadName" ELSE "",
          view |-> [base_path |-> path, repo_cache |-> n.obj, commit_sha |-> sha],
          p2g |-> n.p2g, g2c |-> n.g2c, heap |-> n.heap] :
        n \in RepoCache(path)}

NoInfo == [name |-> "", is_dir |-> FALSE]

\* The operations of a view v on the instance rc it is bound to yield
\* [rc, exc, val, io].

getinfo(v, rc, path) ==
    With(os_path_join(v.base_path, path), LAMBDA full_path :
    With(get_file_contents_at_commit(rc, commitsha(v), full_path), LAMBDA b :
        IF b.val # <<>>
        THEN [rc |-> b.rc, exc |-> "",
              val |-> [name |-> os_path_basename(path), is_dir |-> FALSE],
              io |-> b.io]
        ELSE With(path_is_directory(b.rc, commitsha(v), full_path), LAMBDA d :
                 IF d.val
                 THEN [rc |-> d.rc, exc |-> "",
                       val |-> [name |-> os_path_basename(path), is_dir |-> TRUE],
                       io |-> b.io + d.io]
                 ELSE [rc |-> d.rc, exc |-> "ResourceNotFound", val |-> NoInfo,
                       io |-> b.io + d.io])))

\* openbin testing "if not file_content": an empty file reads as missing.
openbin_falsy(v, rc, path, mode) ==
    With(get_file_contents_at_commit(rc, commitsha(v),
                                     os_path_join(v.base_path, path)), LAMBDA b :
        IF b.val = <<>> \/ b.val = <<"">>
        THEN [rc |-> b.rc, exc |-> "ResourceNotFound", val |-> <<>>, io |-> b.io]
        ELSE [rc |-> b.rc, exc |-> "", val |-> b.val, io |-> b.io])

openbin(v, rc, path, mode) ==
    With(get_file_contents_at_commit(rc, commitsha(v),
                                     os_path_join(v.base_path, path)), LAMBDA b :
        IF b.val = <<>>
        THEN [rc |-> b.rc, exc |-> "ResourceNotFound", val |-> <<>>, io |-> b.io]
        ELSE [rc |-> b.rc, exc |-> "", val |-> b.val, io |-> b.io])

listdir(v, rc, path) ==
    With(list_tree_paths(rc, commitsha(v), os_path_join(v.base_path, path)),
         LAMBDA l : [rc |-> l.rc, exc |-> "", val |-> l.val, io |-> l.io])

\* opendir with DirectoryExpected caught and raised as ResourceNotFound.
opendir_not_found(v, rc, path) ==
    With(getinfo(v, rc, path), LAMBDA i :
        [rc |-> i.rc,
         exc |-> IF i.exc = "ResourceNotFound" \/ ~i.val.is_dir
                 THEN "ResourceNotFound" ELSE "",
         val |-> os_path_join(v.base_path, path), io |-> i.io])

\* opendir up to the construction of the sub-view: [rc, exc, val, io], val
\* the path the sub-view is built on.
opendir(v, rc, path) ==
    With(getinfo(v, rc, path), LAMBDA i :
        [rc |-> i.rc,
         exc |-> IF i.exc = "ResourceNotFound" THEN "ResourceNotFound"
                 ELSE IF ~i.val.is_dir THEN "DirectoryExpected" ELSE "",
         val |-> os_path_join(v.base_path, path), io |-> i.io])

\* makedir, remove, removedir, setinfo.
read_only(v, rc, path) ==
    [rc |-> rc, exc |-> "ResourceReadOnly", val |-> path, io |-> 0]

\* ------------------------------------------------------------------ inputs

Rel(segs) == [abs |-> FALSE, segs |-> segs]

\* The paths handed to the operations of a view.
ReqPaths ==
    {Rel(<<>>), Rel(<<"d">>), Rel(<<"d", "f">>), Rel(<<"g">>), Rel(<<"q">>),
     Rel(<<"..", "g">>)}

\* The paths views are opened on, and those RepoCache is built for.
ViewBases == {<<"r">>, <<"r", "d">>}

CachePaths ==
    {<<"r">>, <<"r", "d">>, <<"r", "d", "..", "g">>, <<"r", "q">>,
     <<"s">>, <<"s", "d", "f">>, <<"z">>}

Modes == {"r", "w"}

\* What getinfo, openbin and listdir of view v answer for path when the
\* instances are h; and what is observed of a view: its commitsha and its
\* answers for every path.
Answers(h, v, path) ==
    <<With(getinfo(v, h[v.repo_cache], path), LAMBDA r : <<r.exc, r.val>>),
      With(openbin(v, h[v.repo_cache], path, "r"), LAMBDA r : <<r.exc, r.val>>),
      With(listdir(v, h[v.repo_cache], path), LAMBDA r : <<r.exc, r.val>>)>>

Observed(h, v) ==
    [commitsha |-> commitsha(v),
     answers |-> [path \in ReqPaths |-> Answers(h, v, path)]]

\* ------------------------------------------------------------------ FontGit

\* The file UFOReader reads first from the filesystem it is handed
\* (metainfo.plist); in the trees here the file f of a directory stands for
\* it.
METAINFO_FILENAME == [abs |-> FALSE, segs |-> <<"f">>]

\* FontGit.commitHash
commitHash(font) == font.commit_sha

NoFont == [commit_sha |-> None]

\* FontGit.open_at_commit(path, commit_sha): the view is built, the reader
\* reads the font through it, and the font takes the commitsha of the view.
\* The outcomes [exc, font, view, p2g, g2c, made, heap], made being the
\* instances when the view was built.
open_at_commit(path, commit_sha) ==
    {IF n.exc # ""
     THEN [exc |-> n.exc, font |-> NoFont, view |-> n.view,
           p2g |-> n.p2g, g2c |-> n.g2c, made |-> n.heap, heap |-> n.heap]
     ELSE With(openbin(n.view, n.heap[n.view.repo_cache], METAINFO_FILENAME, "rb"),
               LAMBDA m :
          [exc |-> IF m.exc # "" THEN "UFOLibError" ELSE "",
           font |-> IF m.exc # "" THEN NoFont
                    ELSE [commit_sha |-> commitsha(n.view)],
           view |-> n.view, p2g |-> n.p2g, g2c |-> n.g2c, made |-> n.heap,
           heap |-> [n.heap EXCEPT ![n.view.repo_cache] = m.rc]]) :
        n \in GitCommitFS(path, commit_sha)}

\* ------------------------------------------------------------------ threads

Threads == 1..NumThreads

\* A thread that is in no call.
Idle ==
    [pc |-> "idle", op |-> "", path |-> <<>>, root |-> <<>>, create |-> FALSE,
     obj |-> None, exc |-> "", contended |-> FALSE, index |-> 0,
     latest |-> None, new_commits |-> <<>>, calls |-> 0]

\* A lock that lets every thread in.
lock_ignored(t) == TRUE

\* _cache_lock.acquire() of "with _cache_lock": the lock is free.
can_acquire(t) == cache_lock = None

\* A with block that keeps the lock when it is left.
with_exit_held(t) == cache_lock

\* _cache_lock.__exit__ of "with _cache_lock": the lock once the block is
\* left, by return or by an exception.
with_exit(t) == None

\* --------------------------------------------------------------- LayerSet
\* objects/layerSet.py.  A Layer is [name, default, glyphs]; a LayerSet is
\* [layers, order, defaultLayer, reader]: the dict _layers as a function
\* with the order of its keys, the name of _defaultLayer, and _reader.

DEFAULT_LAYER_NAME == "public.default"

\* _LAYER_NOT_LOADED, the Layer that stands for a layer not read yet.
LAYER_NOT_LOADED ==
    [name |-> "____LAYER_NOT_LOADED____", default |-> FALSE, glyphs |-> {}]

NoReader == [layerNames |-> <<>>, defaultLayerName |-> ""]

\* The UFOs a reader may be opened on: the layer names in the order of
\* layercontents.plist, and the name of the default layer.
Readers ==
    {r \in [layerNames : {<<"public.default">>,
                          <<"public.default", "bg">>, <<"bg", "public.default">>,
                          <<"public.default", "bg", "fg">>,
                          <<"fg", "public.default", "bg">>},
            defaultLayerName : {"public.default", "bg"}] :
        r.defaultLayerName \in Range(r.layerNames)}

\* reader.getGlyphSet(layerName): the glyphs of the layer on disk.
getGlyphSet(reader, layerName) == {<<layerName, "A">>}

\* LayerSet._loadLayer(reader, layerName, default)
loadLayer(reader, layerName, default) ==
    [name |-> layerName, default |-> default,
     glyphs |-> getGlyphSet(reader, layerName)]

\* LayerSet.default(): from_iterable([Layer()]).
LayerSet_default ==
    [layers |-> (DEFAULT_LAYER_NAME :>
                    [name |-> DEFAULT_LAYER_NAME, default |-> TRUE, glyphs |-> {}]),
     order |-> <<DEFAULT_LAYER_NAME>>,
     defaultLayer |-> DEFAULT_LAYER_NAME,
     reader |-> NoReader]

\* LayerSet.read(reader): only the default layer is loaded.
LayerSet_read(reader) ==
    [layers |-> [layerName \in Range(reader.layerNames) |->
                    IF layerName = reader.defaultLayerName
                    THEN loadLayer(reader, layerName, TRUE)
                    ELSE LAYER_NOT_LOADED],
     order |-> reader.layerNames,
     defaultLayer |-> reader.defaultLayerName,
     reader |-> reader]

\* The methods below yield [ls, exc, val]: the LayerSet after the call, the
\* exception raised ("" for none) and the value returned.

\* LayerSet.__getitem__(name), name "" for None.  For a layer not loaded
\* the argument layer_name of _loadLayer is evaluated first: the name is
\* bound nowhere in the method or the module, so NameError is raised
\* before _loadLayer is called and before self._layers is assigned.
getitem(ls, name) ==
    LET key == IF name = "" THEN ls.defaultLayer ELSE name
    IN  IF key \notin DOMAIN ls.layers
        THEN [ls |-> ls, exc |-> "KeyError", val |-> LAYER_NOT_LOADED]
        ELSE IF ls.layers[key] = LAYER_NOT_LOADED
        THEN [ls |-> ls, exc |-> "NameError", val |-> LAYER_NOT_LOADED]
        ELSE [ls |-> ls, exc |-> "", val |-> ls.layers[key]]

\* LayerSet.__iter__, consumed to the end: self[layer_name] for every key
\* in order; val is what was yielded before an exception ended it.
RECURSIVE iter_from(_, _, _)
iter_from(ls, i, yielded) ==
    IF i > Len(ls.order) THEN [ls |-> ls, exc |-> "", val |-> yielded]
    ELSE LET g == getitem(ls, ls.order[i])
         IN  IF g.exc # "" THEN [ls |-> g.ls, exc |-> g.exc, val |-> yielded]
             ELSE iter_from(g.ls, i + 1, Append(yielded, g.val))

iter(ls) == iter_from(ls, 1, <<>>)

\* LayerSet.__contains__(name)
contains(ls, name) == [ls |-> ls, exc |-> "", val |-> name \in DOMAIN ls.layers]

\* LayerSet.__len__()
len(ls) == [ls |-> ls, exc |-> "", val |-> Cardinality(DOMAIN ls.layers)]

\* LayerSet.layerOrder
layerOrder(ls) == [ls |-> ls, exc |-> "", val |-> ls.order]

\* The names asked for: the layers a UFO may have, one it has not, and ""
\* for None.
LayerNames == {"", "public.default", "bg", "fg", "missing"}

\* ----------------------------------------------------------------- actions

Init ==
    /\ gitdb = [root \in REPO_ROOTS |->
           [commits |-> <<[tree |-> T1, parents |-> <<>>]>>, head |-> 1]]
    /\ worktree = [root \in REPO_ROOTS |-> T1]
    /\ PATH_2_GITROOT = EmptyMap
    /\ GITROOT_2_CACHED_REPO = EmptyMap
    /\ heap = <<>>
    /\ views = {}
    /\ handle = EmptyMap
    /\ born = EmptyMap
    /\ cache_lock = None
    /\ threads = [t \in Threads |-> Idle]
    /\ layerset = LayerSet_default
    /\ ret = [op |-> "init"]

Bounded(rc) == Cardinality(DOMAIN rc.file_data) <= MaxCached

\* Another process commits tree t on top of HEAD of an opened repository.
BackendCommit(root, t) ==
    /\ root \in DOMAIN GITROOT_2_CACHED_REPO
    /\ Len(Commits(root)) < MaxCommits
    /\ gitdb' = [gitdb EXCEPT ![root] =
           [commits |-> Append(@.commits,
                [tree |-> t,
                 parents |-> IF @.head = None THEN <<>> ELSE <<@.head>>]),
            head |-> Len(@.commits) + 1]]
    /\ ret' = [op |-> "commit"]
    /\ UNCHANGED <<worktree, PATH_2_GITROOT, GITROOT_2_CACHED_REPO, heap, views,
                   handle, born, cache_lock, threads,
                   layerset>>

\* The working copy of an opened repository is edited.
WorktreeEdit(root, t) ==
    /\ root \in DOMAIN GITROOT_2_CACHED_REPO
    /\ worktree[root] # t
    /\ worktree' = [worktree EXCEPT ![root] = t]
    /\ ret' = [op |-> "edit"]
    /\ UNCHANGED <<gitdb, PATH_2_GITROOT, GITROOT_2_CACHED_REPO, heap, views,
                   handle, born, cache_lock, threads,
                   layerset>>

\* RepoCache(path)
Construct(path) ==
    \E n \in RepoCache(path) :
        /\ PATH_2_GITROOT' = n.p2g
        /\ GITROOT_2_CACHED_REPO' = n.g2c
        /\ heap' = n.heap
        /\ handle' = IF n.exc = "" THEN Put(handle, path, n.obj) ELSE handle
        /\ ret' = [op |-> "RepoCache", path |-> path, exc |-> n.exc, val |-> n.obj,
                   opened |-> n.opened]
        /\ UNCHANGED <<gitdb, worktree, views, born, cache_lock, threads,
                   layerset>>

\* GitCommitFS(path, commit_sha)
NewFS(path, commit_sha) ==
    \E n \in GitCommitFS(path, commit_sha) :
        /\ Cardinality(views \cup {n.view}) <= MaxViews
        /\ PATH_2_GITROOT' = n.p2g
        /\ GITROOT_2_CACHED_REPO' = n.g2c
        /\ heap' = n.heap
        /\ handle' = IF n.view.repo_cache # None
                     THEN Put(handle, path, n.view.repo_cache) ELSE handle
        /\ views' = IF n.exc = "" THEN views \cup {n.view} ELSE views
        /\ born' = IF n.exc = "" /\ n.view \notin DOMAIN born
                   THEN Put(born, n.view, Observed(n.heap, n.view)) ELSE born
        /\ ret' = [op |-> "GitCommitFS", path |-> path, ref |-> commit_sha,
                   exc |-> n.exc, val |-> n.view]
        /\ UNCHANGED <<gitdb, worktree, cache_lock, threads,
                   layerset>>

FSCall(op, v, path, mode, res) ==
    /\ Bounded(res.rc)
    /\ heap' = [heap EXCEPT ![v.repo_cache] = res.rc]
    /\ ret' = [op |-> op, view |-> v, path |-> path, mode |-> mode,
               exc |-> res.exc, val |-> res.val, io |-> res.io]
    /\ UNCHANGED <<gitdb, worktree, PATH_2_GITROOT, GITROOT_2_CACHED_REPO, views,
                   handle, born, cache_lock, threads,
                   layerset>>

Getinfo(v, path) ==
    \E res \in {getinfo(v, heap[v.repo_cache], path)} :
        FSCall("getinfo", v, path, "", res)

Openbin(v, path, mode) ==
    \E res \in {openbin(v, heap[v.repo_cache], path, mode)} :
        FSCall("openbin", v, path, mode, res)

Listdir(v, path) ==
    \E res \in {listdir(v, heap[v.repo_cache], path)} :
        FSCall("listdir", v, path, "", res)

Makedir(v, path) ==
    \E res \in {read_only(v, heap[v.repo_cache], path)} :
        FSCall("makedir", v, path, "", res)

Remove(v, path) ==
    \E res \in {read_only(v, heap[v.repo_cache], path)} :
        FSCall("remove", v, path, "", res)

Removedir(v, path) ==
    \E res \in {read_only(v, heap[v.repo_cache], path)} :
        FSCall("removedir", v, path, "", res)

Setinfo(v, path) ==
    \E res \in {read_only(v, heap[v.repo_cache], path)} :
        FSCall("setinfo", v, path, "", res)

\* opendir: the check of the path, then GitCommitFS(full_path, commit_sha).
\* The view returned is in ret; the caller goes on to use it while it holds
\* fewer than MaxViews views.
Opendir(v, path) ==
    \E res \in {opendir(v, heap[v.repo_cache], path)} :
        IF res.exc # ""
        THEN FSCall("opendir", v, path, "", res)
        ELSE \E n \in GitCommitFS(res.val, commitsha(v)) :
             \E kept \in {n.exc = ""
                          /\ Cardinality(views \cup {n.view}) <= MaxViews} :
                /\ Bounded(res.rc)
                /\ PATH_2_GITROOT' = n.p2g
                /\ GITROOT_2_CACHED_REPO' = n.g2c
                /\ heap' = [n.heap EXCEPT ![v.repo_cache] = res.rc]
                /\ handle' = IF n.view.repo_cache # None
                             THEN Put(handle, res.val, n.view.repo_cache)
                             ELSE handle
                /\ views' = IF kept THEN views \cup {n.view} ELSE views
                /\ born' = IF kept /\ n.view \notin DOMAIN born
                           THEN Put(born, n.view, Observed(n.heap, n.view))
                           ELSE born
                /\ ret' = [op |-> "opendir", view |-> v, path |-> path, mode |-> "",
                           exc |-> n.exc, val |-> n.view, io |-> res.io]
                /\ UNCHANGED <<gitdb, worktree, cache_lock, threads,
                   layerset>>

CacheCall(op, obj, commit_hash, path, res) ==
    /\ Bounded(res.rc)
    /\ heap' = [heap EXCEPT ![obj] = res.rc]
    /\ ret' = [op |-> op, obj |-> obj, commit |-> commit_hash, path |-> path,
               exc |-> "", val |-> res.val, io |-> res.io]
    /\ UNCHANGED <<gitdb, worktree, PATH_2_GITROOT, GITROOT_2_CACHED_REPO, views,
                   handle, born, cache_lock, threads,
                   layerset>>

GetFileContentsAtCommit(obj, commit_hash, path) ==
    \E res \in {get_file_contents_at_commit(heap[obj], commit_hash, path)} :
        CacheCall("get_file_contents_at_commit", obj, commit_hash, path, res)

GetChangedFiles(obj, commit_hash) ==
    \E res \in get_changed_files_paths_by_commit_hash(heap[obj], commit_hash) :
        CacheCall("get_changed_files_paths_by_commit_hash", obj, commit_hash,
                  <<>>, res)

GetCommitByIndex(obj, index) ==
    \E res \in get_commit_by_index(heap[obj], index) :
        /\ heap' = [heap EXCEPT ![obj] = res.rc]
        /\ ret' = [op |-> "get_commit_by_index", obj |-> obj, index |-> index,
                   exc |-> res.exc, val |-> res.val, io |-> res.io,
                   grew |-> Len(res.rc.commits) > Len(heap[obj].commits)]
        /\ UNCHANGED <<gitdb, worktree, PATH_2_GITROOT, GITROOT_2_CACHED_REPO,
                       views, handle, born, cache_lock, threads,
                   layerset>>

Objs == 1..Len(heap)
Hashes(obj) == 1..Len(Commits(heap[obj].root))

\* The absolute paths handed to get_file_contents_at_commit.
FilePaths ==
    {<<"r">>, <<"r", "d">>, <<"r", "d", "f">>, <<"r", "g">>, <<"r", "q">>,
     <<"r", "d", "..", "g">>}

\* Reads through views, while other processes commit and edit; the commit
\* log is refreshed by get_commit_by_index(-1).
NextFS ==
    \/ \E root \in REPO_ROOTS, t \in TreeSet : BackendCommit(root, t)
    \/ \E root \in REPO_ROOTS, t \in WorkTrees : WorktreeEdit(root, t)
    \/ \E path \in ViewBases, ref \in 0..MaxCommits : NewFS(path, ref)
    \/ \E v \in views, path \in ReqPaths : Getinfo(v, path)
    \/ \E v \in views, path \in ReqPaths, mode \in Modes : Openbin(v, path, mode)
    \/ \E v \in views, path \in ReqPaths : Listdir(v, path)
    \/ \E v \in views, path \in ReqPaths : Opendir(v, path)
    \/ \E obj \in Objs : GetCommitByIndex(obj, -1)

SpecFS == Init /\ [][NextFS]_vars

\* The mutating operations of views, and opening files.
NextReadOnly ==
    \/ \E root \in REPO_ROOTS, t \in TreeSet : BackendCommit(root, t)
    \/ \E path \in ViewBases, ref \in 0..MaxCommits : NewFS(path, ref)
    \/ \E v \in views, path \in ReqPaths, mode \in Modes : Openbin(v, path, mode)
    \/ \E v \in views, path \in ReqPaths : Makedir(v, path)
    \/ \E v \in views, path \in ReqPaths : Remove(v, path)
    \/ \E v \in views, path \in ReqPaths : Removedir(v, path)
    \/ \E v \in views, path \in ReqPaths : Setinfo(v, path)

SpecReadOnly == Init /\ [][NextReadOnly]_vars

\* Direct calls of the cache, while other processes commit.
NextCache ==
    \/ \E root \in REPO_ROOTS, t \in TreeSet : BackendCommit(root, t)
    \/ Construct(<<"r">>)
    \/ \E obj \in Objs : \E c \in Hashes(obj), path \in FilePaths :
          GetFileContentsAtCommit(obj, c, path)
    \/ \E obj \in Objs : \E c \in {None} \cup Hashes(obj) : GetChangedFiles(obj, c)
    \/ \E obj \in Objs, index \in -1..MaxCommits : GetCommitByIndex(obj, index)

SpecCache == Init /\ [][NextCache]_vars

\* Constructions of RepoCache.
NextRegistry == \E path \in CachePaths : Construct(path)

SpecRegistry == Init /\ [][NextRegistry]_vars

\* Another process commits tree t on top of HEAD of a repository no
\* RepoCache was made for yet.
CommitBefore(root, t) ==
    /\ root \notin DOMAIN GITROOT_2_CACHED_REPO
    /\ Len(Commits(root)) < MaxCommits
    /\ gitdb' = [gitdb EXCEPT ![root] =
           [commits |-> Append(@.commits,
                [tree |-> t,
                 parents |-> IF @.head = None THEN <<>> ELSE <<@.head>>]),
            head |-> Len(@.commits) + 1]]
    /\ ret' = [op |-> "commit"]
    /\ UNCHANGED <<worktree, PATH_2_GITROOT, GITROOT_2_CACHED_REPO, heap, views,
                   handle, born, cache_lock, threads,
                   layerset>>

\* FontGit.open_at_commit(path, commit_sha)
OpenAtCommit(path, commit_sha) ==
    \E n \in open_at_commit(path, commit_sha) :
        /\ n.view.repo_cache # None => Bounded(n.heap[n.view.repo_cache])
        /\ Cardinality(views \cup {n.view}) <= MaxViews
        /\ PATH_2_GITROOT' = n.p2g
        /\ GITROOT_2_CACHED_REPO' = n.g2c
        /\ heap' = n.heap
        /\ handle' = IF n.view.repo_cache # None
                     THEN Put(handle, path, n.view.repo_cache) ELSE handle
        /\ views' = IF n.exc = "" THEN views \cup {n.view} ELSE views
        /\ born' = IF n.exc = "" /\ n.view \notin DOMAIN born
                   THEN Put(born, n.view, Observed(n.made, n.view)) ELSE born
        /\ ret' = [op |-> "open_at_commit", path |-> path, ref |-> commit_sha,
                   exc |-> n.exc, val |-> n.font]
        /\ UNCHANGED <<gitdb, worktree, cache_lock, threads,
                   layerset>>

\* The commit log and the changes of commits and of the working copy, for
\* a repository that other processes commit to before and after the cache
\* is made, and whose working copy is edited.
NextLog ==
    \/ \E t \in TreeSet : CommitBefore(<<"r">>, t)
    \/ \E t \in TreeSet : BackendCommit(<<"r">>, t)
    \/ \E t \in TreeSet : WorktreeEdit(<<"r">>, t)
    \/ Construct(<<"r">>)
    \/ \E obj \in Objs : \E c \in {None} \cup Hashes(obj) : GetChangedFiles(obj, c)
    \/ \E obj \in Objs, index \in -1..MaxCommits : GetCommitByIndex(obj, index)

SpecLog == Init /\ [][NextLog]_vars

\* Fonts opened at commits, and their views listed, while other processes
\* commit.
NextFont ==
    \/ \E root \in REPO_ROOTS, t \in TreeSet : BackendCommit(root, t)
    \/ \E path \in ViewBases, ref \in 0..MaxCommits : OpenAtCommit(path, ref)
    \/ \E v \in views, path \in ReqPaths : Listdir(v, path)

SpecFont == Init /\ [][NextFont]_vars

\* The paths threads construct RepoCache for: two in one repository, one in
\* none.
ThreadPaths == {<<"r">>, <<"r", "d">>, <<"z">>}

ThreadGoes(t, rec) ==
    threads' = [threads EXCEPT ![t] = rec]

\* Where a thread goes when _update_commits returns: out of __init__, or on
\* in get_commit_by_index.
AfterUpdate(t) ==
    IF threads[t].op = "index" THEN "index" ELSE "done"

\* Thread t calls RepoCache(path) and arrives at "with _cache_lock".
T_Call(t, path) ==
    /\ threads[t].pc = "idle"
    /\ ThreadGoes(t, [threads[t] EXCEPT !.pc = "lock", !.op = "new",
                                        !.path = path,
                                        !.contended = cache_lock # None])
    /\ UNCHANGED <<gitdb, worktree, PATH_2_GITROOT, GITROOT_2_CACHED_REPO, heap,
                   views, handle, born, cache_lock, ret,
                   layerset>>

\* utils.py:83, the lock is taken.
T_Acquire(t) ==
    /\ threads[t].pc = "lock"
    /\ can_acquire(t)
    /\ cache_lock' = t
    /\ ThreadGoes(t, [threads[t] EXCEPT !.pc = "resolve"])
    /\ UNCHANGED <<gitdb, worktree, PATH_2_GITROOT, GITROOT_2_CACHED_REPO, heap,
                   views, handle, born, ret,
                   layerset>>

\* utils.py:84-91, the root of the path; an exception of git.Repo leaves
\* the with block and the lock.
T_Resolve(t) ==
    /\ threads[t].pc = "resolve"
    /\ LET path == threads[t].path
           known == path \in DOMAIN PATH_2_GITROOT
           root == IF known THEN PATH_2_GITROOT[path] ELSE git_Repo(path)
       IN  IF root = <<>>
           THEN /\ cache_lock' = with_exit(t)
                /\ ThreadGoes(t, [threads[t] EXCEPT !.pc = "done",
                                                    !.exc = "Exception"])
           ELSE /\ cache_lock' = cache_lock
                /\ ThreadGoes(t, [threads[t] EXCEPT
                       !.pc = IF known THEN "return" ELSE "check",
                       !.root = root])
    /\ UNCHANGED <<gitdb, worktree, PATH_2_GITROOT, GITROOT_2_CACHED_REPO, heap,
                   views, handle, born, ret,
                   layerset>>

\* utils.py:93, the test "root not in GITROOT_2_CACHED_REPO".
T_Check(t) ==
    /\ threads[t].pc = "check"
    /\ ThreadGoes(t, [threads[t] EXCEPT
           !.pc = "register",
           !.create = threads[t].root \notin DOMAIN GITROOT_2_CACHED_REPO])
    /\ UNCHANGED <<gitdb, worktree, PATH_2_GITROOT, GITROOT_2_CACHED_REPO, heap,
                   views, handle, born, cache_lock, ret,
                   layerset>>

\* utils.py:94-100, the instance is made and registered, the path mapped.
T_Register(t) ==
    /\ threads[t].pc = "register"
    /\ IF threads[t].create
       THEN /\ heap' = Append(heap, NewObject(threads[t].root))
            /\ GITROOT_2_CACHED_REPO' =
                   Put(GITROOT_2_CACHED_REPO, threads[t].root, Len(heap) + 1)
       ELSE UNCHANGED <<heap, GITROOT_2_CACHED_REPO,
                   layerset>>
    /\ PATH_2_GITROOT' = Put(PATH_2_GITROOT, threads[t].path, threads[t].root)
    /\ ThreadGoes(t, [threads[t] EXCEPT !.pc = "return"])
    /\ UNCHANGED <<gitdb, worktree, views, handle, born, cache_lock, ret,
                   layerset>>

\* utils.py:102, the registered instance is returned and the lock left.
T_Return(t) ==
    /\ threads[t].pc = "return"
    /\ cache_lock' = with_exit(t)
    /\ ThreadGoes(t, [threads[t] EXCEPT
           !.pc = "init", !.obj = GITROOT_2_CACHED_REPO[threads[t].root]])
    /\ UNCHANGED <<gitdb, worktree, PATH_2_GITROOT, GITROOT_2_CACHED_REPO, heap,
                   views, handle, born, ret,
                   layerset>>

\* utils.py:105-106, __init__ tests hasattr(self, "_commits").
T_Init(t) ==
    /\ threads[t].pc = "init"
    /\ ThreadGoes(t, [threads[t] EXCEPT
           !.pc = IF heap[threads[t].obj].inited THEN "done" ELSE "init_set"])
    /\ UNCHANGED <<gitdb, worktree, PATH_2_GITROOT, GITROOT_2_CACHED_REPO, heap,
                   views, handle, born, cache_lock, ret,
                   layerset>>

\* utils.py:107-112, __init__ sets the attributes.
T_InitSet(t) ==
    /\ threads[t].pc = "init_set"
    /\ heap' = [heap EXCEPT ![threads[t].obj] =
           [@ EXCEPT !.inited = TRUE, !.commits = <<>>, !.file_data = EmptyMap,
                     !.changed_files = EmptyMap, !.commit_cache = EmptyMap,
                     !.latest_commit = None, !.tree_cache = EmptyMap]]
    /\ ThreadGoes(t, [threads[t] EXCEPT !.pc = "u_read"])
    /\ UNCHANGED <<gitdb, worktree, PATH_2_GITROOT, GITROOT_2_CACHED_REPO,
                   views, handle, born, cache_lock, ret,
                   layerset>>

\* utils.py:127-144, _update_commits reads the latest commit, compares it
\* with _latest_commit and enumerates the new commits.
T_Read(t) ==
    /\ threads[t].pc = "u_read"
    /\ LET rc == heap[threads[t].obj]
           latest_commit == gitdb[rc.root].head
       IN  IF latest_commit # rc.latest_commit
           THEN \E new_commits \in
                    IF rc.latest_commit # None
                    THEN {Reverse(c) : c \in iter_commits_since(rc.root)}
                    ELSE {iter_commits_all(rc.root)} :
                    ThreadGoes(t, [threads[t] EXCEPT
                        !.pc = "u_extend", !.latest = latest_commit,
                        !.new_commits = new_commits])
           ELSE ThreadGoes(t, [threads[t] EXCEPT !.pc = AfterUpdate(t)])
    /\ UNCHANGED <<gitdb, worktree, PATH_2_GITROOT, GITROOT_2_CACHED_REPO, heap,
                   views, handle, born, cache_lock, ret,
                   layerset>>

\* utils.py:145, self._commits.extend(new_commits).
T_Extend(t) ==
    /\ threads[t].pc = "u_extend"
    /\ heap' = [heap EXCEPT ![threads[t].obj].commits =
                    @ \o threads[t].new_commits]
    /\ ThreadGoes(t, [threads[t] EXCEPT !.pc = "u_set", !.new_commits = <<>>])
    /\ UNCHANGED <<gitdb, worktree, PATH_2_GITROOT, GITROOT_2_CACHED_REPO,
                   views, handle, born, cache_lock, ret,
                   layerset>>

\* utils.py:146, self._latest_commit = latest_commit.
T_Set(t) ==
    /\ threads[t].pc = "u_set"
    /\ heap' = [heap EXCEPT ![threads[t].obj].latest_commit = threads[t].latest]
    /\ ThreadGoes(t, [threads[t] EXCEPT !.pc = AfterUpdate(t), !.latest = None])
    /\ UNCHANGED <<gitdb, worktree, PATH_2_GITROOT, GITROOT_2_CACHED_REPO,
                   views, handle, born, cache_lock, ret,
                   layerset>>

\* Thread t calls get_commit_by_index(index) of the instance it was handed;
\* utils.py:189, the call starts with _update_commits.
T_CallIndex(t, index) ==
    /\ threads[t].pc = "done"
    /\ threads[t].obj # None
    /\ threads[t].calls < MaxCalls
    /\ ThreadGoes(t, [threads[t] EXCEPT !.pc = "u_read", !.op = "index",
                                        !.index = index, !.calls = @ + 1])
    /\ UNCHANGED <<gitdb, worktree, PATH_2_GITROOT, GITROOT_2_CACHED_REPO, heap,
                   views, handle, born, cache_lock, ret,
                   layerset>>

\* utils.py:190-195, the commit at the index, or IndexError.
T_Index(t) ==
    /\ threads[t].pc = "index"
    /\ LET rc == heap[threads[t].obj]
           index == threads[t].index
       IN  IF 0 <= index /\ index < Len(rc.commits)
           THEN /\ heap' = [heap EXCEPT ![threads[t].obj] =
                       get_commit_by_hash(rc, rc.commits[index + 1]).rc]
                /\ ThreadGoes(t, [threads[t] EXCEPT !.pc = "done", !.exc = ""])
           ELSE /\ heap' = heap
                /\ ThreadGoes(t, [threads[t] EXCEPT !.pc = "done",
                                                    !.exc = "IndexError"])
    /\ UNCHANGED <<gitdb, worktree, PATH_2_GITROOT, GITROOT_2_CACHED_REPO,
                   views, handle, born, cache_lock, ret,
                   layerset>>

ThreadStep(t) ==
    \/ \E path \in ThreadPaths : T_Call(t, path)
    \/ T_Acquire(t)
    \/ T_Resolve(t)
    \/ T_Check(t)
    \/ T_Register(t)
    \/ T_Return(t)
    \/ T_Init(t)
    \/ T_InitSet(t)
    \/ T_Read(t)
    \/ T_Extend(t)
    \/ T_Set(t)
    \/ \E index \in 0..1 : T_CallIndex(t, index)
    \/ T_Index(t)

\* Threads that construct RepoCache and call get_commit_by_index, each a
\* statement at a time, while another process commits.
NextThreads ==
    \/ \E t \in Threads : ThreadStep(t)
    \/ BackendCommit(<<"r">>, T2)

SpecThreads == Init /\ [][NextThreads]_vars

\* Every thread that can take a step is scheduled in the end.
FairThreads == SpecThreads /\ \A t \in Threads : WF_vars(ThreadStep(t))

\* LayerSet calls.
LayerCall(op, name, res) ==
    /\ layerset' = res.ls
    /\ ret' = [op |-> op, name |-> name, exc |-> res.exc, val |-> res.val,
               before |-> layerset]
    /\ UNCHANGED <<gitdb, worktree, PATH_2_GITROOT, GITROOT_2_CACHED_REPO, heap,
                   views, handle, born, cache_lock, threads>>

LayerRead(reader) ==
    LayerCall("read", "", [ls |-> LayerSet_read(reader), exc |-> "", val |-> reader])

LayerGetitem(name) == LayerCall("getitem", name, getitem(layerset, name))

LayerContains(name) == LayerCall("contains", name, contains(layerset, name))

LayerLen == LayerCall("len", "", len(layerset))

LayerOrder == LayerCall("layerOrder", "", layerOrder(layerset))

LayerIter == LayerCall("iter", "", iter(layerset))

\* A font is read and its layers are looked up.
NextLayers ==
    \/ \E reader \in Readers : LayerRead(reader)
    \/ \E name \in LayerNames : LayerGetitem(name)
    \/ \E name \in LayerNames : LayerContains(name)
    \/ LayerLen
    \/ LayerOrder
    \/ LayerIter

SpecLayers == Init /\ [][NextLayers]_vars

\* ------------------------------------------------------------------ claims

\* What the repository holds at base path + path of view v, read off the
\* backend's own tree of the bound commit: "blob", "tree" or "none".
ViewRoot(v) == heap[v.repo_cache].root
BoundTree(v) == commit_tree(ViewRoot(v), v.commit_sha)
BasePlus(v, path) == normpath(v.base_path \o path.segs)
InTree(v, path) == SubSeq(BasePlus(v, path), Len(ViewRoot(v)) + 1,
                          Len(BasePlus(v, path)))
KindAt(v, path) ==
    IF ~IsPrefix(ViewRoot(v), BasePlus(v, path)) THEN "none"
    ELSE IF InTree(v, path) \in DOMAIN BoundTree(v) THEN "blob"
    ELSE IF \E q \in DOMAIN BoundTree(v) : IsPrefix(InTree(v, path), q) THEN "tree"
    ELSE "none"

\* C1: any two paths inside the same repository were handed the same
\* RepoCache instance, and every repository root an instance was made for
\* has exactly one instance, the one the registry holds.
C1_SingletonIdentity ==
    /\ \A p1 \in DOMAIN handle, p2 \in DOMAIN handle :
           (\E root \in REPO_ROOTS :
               IsPrefix(root, normpath(p1)) /\ IsPrefix(root, normpath(p2)))
           => handle[p1] = handle[p2]
    /\ \A i \in 1..Len(heap) :
           /\ heap[i].root \in DOMAIN GITROOT_2_CACHED_REPO
           /\ GITROOT_2_CACHED_REPO[heap[i].root] = i

C1_Witness ==
    /\ ret.op = "RepoCache"
    /\ {<<"r">>, <<"r", "d", "..", "g">>, <<"s", "d", "f">>} \subseteq DOMAIN handle
    /\ handle[<<"r">>] = handle[<<"r", "d", "..", "g">>]
    /\ handle[<<"r">>] # handle[<<"s", "d", "f">>]

\* C2: after any run of commits and edits by other processes, refreshes of
\* the commit log and operations of views, every view has the commitsha it
\* was constructed with, and getinfo, openbin and listdir answer for every
\* path what they would have answered right after its construction.
C2_BoundCommit ==
    \A v \in views :
        /\ v \in DOMAIN born
        /\ commitsha(v) = born[v].commitsha
        /\ \A path \in ReqPaths : Answers(heap, v, path) = born[v].answers[path]

C2_Witness ==
    \E v \in views :
        /\ v.commit_sha = 1
        /\ gitdb[ViewRoot(v)].head = 2
        /\ heap[v.repo_cache].latest_commit = 2
        /\ worktree[ViewRoot(v)] # T1
        /\ ret.op = "openbin" /\ ret.view = v /\ ret.exc = ""
        /\ ret.val = <<"x">>
        /\ InTree(v, ret.path) \in DOMAIN commit_tree(ViewRoot(v), 2)
        /\ commit_tree(ViewRoot(v), 2)[InTree(v, ret.path)] = "y"

\* C3: every call of get_changed_files_paths_by_commit_hash for a commit
\* returns the changes the first call for that commit computed and cached.
C3_ChangedPathsCached ==
    (ret.op = "get_changed_files_paths_by_commit_hash" /\ ret.commit # None)
    => ret.val = heap[ret.obj].changed_files[ret.commit]

\* C4: a call of get_file_contents_at_commit for a key not yet cached
\* caches what it returns; a cached entry is kept by every step; a call
\* for a cached key returns the cached value and reads nothing from the
\* backend.
C4_CachePurity ==
    [][\A obj \in Objs : \A c \in Hashes(obj), path \in FilePaths :
          LET key == <<c, get_rel_path(heap[obj], path)>>
              called == /\ ret'.op = "get_file_contents_at_commit"
                        /\ ret'.obj = obj /\ ret'.commit = c /\ ret'.path = path
          IN  IF key \in DOMAIN heap[obj].file_data
              THEN /\ key \in DOMAIN heap'[obj].file_data
                   /\ heap'[obj].file_data[key] = heap[obj].file_data[key]
                   /\ called => /\ ret'.val = heap[obj].file_data[key]
                                /\ ret'.io = 0
              ELSE called => /\ key \in DOMAIN heap'[obj].file_data
                             /\ heap'[obj].file_data[key] = ret'.val]_vars

C4_Witness ==
    /\ ret.op = "get_file_contents_at_commit"
    /\ ret.io = 0
    /\ ret.val = <<>>
    /\ DOMAIN heap[ret.obj].changed_files # {}
    /\ heap[ret.obj].latest_commit = 2

\* C5: makedir, remove, removedir, setinfo and opening a file in a write
\* mode fail with ResourceReadOnly, for any path.
C5_ReadOnly ==
    (\/ ret.op \in {"makedir", "remove", "removedir", "setinfo"}
     \/ ret.op = "openbin" /\ ret.mode = "w")
    => ret.exc = "ResourceReadOnly"

\* C6: listdir fails with ResourceNotFound whenever base path + path is
\* not a directory of the bound commit, and returns names otherwise.
C6_ListdirNotFound ==
    ret.op = "listdir"
    => (ret.exc = "ResourceNotFound" <=> KindAt(ret.view, ret.path) # "tree")

\* C7 as claimed: opendir fails with ResourceNotFound whenever base path +
\* path is not a directory of the bound commit.
C7_OpendirNotFound ==
    (ret.op = "opendir" /\ KindAt(ret.view, ret.path) # "tree")
    => ret.exc = "ResourceNotFound"

\* C7 as amended: opendir fails with ResourceNotFound when base path + path
\* is absent from the bound commit, and with DirectoryExpected when it names
\* a file.
C7_OpendirFails ==
    ret.op = "opendir"
    => /\ KindAt(ret.view, ret.path) = "none" => ret.exc = "ResourceNotFound"
       /\ KindAt(ret.view, ret.path) = "blob" => ret.exc = "DirectoryExpected"

C7_Witness ==
    /\ ret.op = "opendir"
    /\ KindAt(ret.view, ret.path) = "blob"
    /\ ret.exc = "DirectoryExpected"
    /\ BoundTree(ret.view)[InTree(ret.view, ret.path)] = ""

\* C8: getinfo answers is_dir False exactly for a file of the bound commit,
\* is_dir True exactly for a directory, each with the last segment of the
\* path as name, and fails with ResourceNotFound exactly for neither.
C8_Getinfo ==
    ret.op = "getinfo"
    => CASE KindAt(ret.view, ret.path) = "blob" ->
                ret.exc = "" /\ ~ret.val.is_dir
                /\ (ret.path.segs # <<>>
                    => ret.val.name = ret.path.segs[Len(ret.path.segs)])
         [] KindAt(ret.view, ret.path) = "tree" ->
                ret.exc = "" /\ ret.val.is_dir
                /\ (ret.path.segs # <<>>
                    => ret.val.name = ret.path.segs[Len(ret.path.segs)])
         [] OTHER -> ret.exc = "ResourceNotFound"

\* C9: openbin returns the bytes of the file at base path + path in the
\* bound commit, and fails with ResourceNotFound exactly when there is no
\* file there (nothing, or a directory).
C9_Openbin ==
    ret.op = "openbin"
    => IF KindAt(ret.view, ret.path) = "blob"
       THEN /\ ret.exc = ""
            /\ ret.val = <<BoundTree(ret.view)[InTree(ret.view, ret.path)]>>
       ELSE ret.exc = "ResourceNotFound"

C9_Witness ==
    /\ ret.op = "openbin"
    /\ ret.exc = ""
    /\ ret.val = <<"">>
    /\ ret.view.base_path = <<"r", "d">>
    /\ gitdb[ViewRoot(ret.view)].head # ret.view.commit_sha

\* C10: the first computation of the changes of a commit with a parent puts
\* the paths only in the commit's tree in added, the paths only in the
\* parent's tree in removed, the paths in both with other content in
\* modified, and no other path anywhere.
C10_DiffClassification ==
    (/\ ret.op = "get_changed_files_paths_by_commit_hash"
     /\ ret.commit # None
     /\ ret.io > 0
     /\ commit_parents(heap[ret.obj].root, ret.commit) # <<>>)
    => LET root == heap[ret.obj].root
           new == commit_tree(root, ret.commit)
           old == commit_tree(root, commit_parents(root, ret.commit)[1])
       IN  /\ ret.val.added = DOMAIN new \ DOMAIN old
           /\ ret.val.removed = DOMAIN old \ DOMAIN new
           /\ ret.val.modified =
                  {q \in DOMAIN new \cap DOMAIN old : new[q] # old[q]}

\* C11: the changes of a commit without parent are computed without
\* failure: every path of its tree is added, nothing is removed or modified.
C11_RootCommitDiff ==
    (/\ ret.op = "get_changed_files_paths_by_commit_hash"
     /\ ret.commit # None
     /\ ret.io > 0
     /\ commit_parents(heap[ret.obj].root, ret.commit) = <<>>)
    => /\ ret.exc = ""
       /\ ret.val = [added |-> DOMAIN commit_tree(heap[ret.obj].root, ret.commit),
                     removed |-> {}, modified |-> {}]

\* C12: when the diff of a commit against its first parent reports a rename
\* old -> new, the changes computed from it hold old in removed, new in
\* added, and neither in modified.
C12_RenameDecomposition ==
    (/\ ret.op = "get_changed_files_paths_by_commit_hash"
     /\ ret.commit # None
     /\ ret.io > 0
     /\ commit_parents(heap[ret.obj].root, ret.commit) # <<>>)
    => LET root == heap[ret.obj].root
           new == commit_tree(root, ret.commit)
           old == commit_tree(root, commit_parents(root, ret.commit)[1])
       IN  \E diffs \in tree_diff(old, new) :
               \A d \in diffs :
                   d.change_type = "R"
                   => /\ d.a_path \in ret.val.removed
                      /\ d.b_path \in ret.val.added
                      /\ d.a_path \notin ret.val.modified
                      /\ d.b_path \notin ret.val.modified

C12_Witness ==
    /\ ret.op = "get_changed_files_paths_by_commit_hash"
    /\ ret.commit = 2
    /\ ret.io > 0
    /\ \E diffs \in tree_diff(commit_tree(heap[ret.obj].root, 1),
                               commit_tree(heap[ret.obj].root, 2)) :
           \E d \in diffs : /\ d.change_type = "R"
                            /\ d.a_path = <<"d", "f">> /\ d.b_path = <<"d">>
    /\ <<"d", "f">> \in ret.val.removed
    /\ <<"d">> \in ret.val.added

\* C13: the changes of the working copy are those of the working copy as it
\* is at the call against the last commit (created paths added, missing
\* paths removed, paths with other content modified), and they are not kept
\* in the changed-files cache.
C13_WorkingCopyFresh ==
    (ret.op = "get_changed_files_paths_by_commit_hash" /\ ret.commit = None)
    => LET root == heap[ret.obj].root
           last == commit_tree(root, gitdb[root].head)
           work == worktree[root]
       IN  /\ None \notin DOMAIN heap[ret.obj].changed_files
           /\ ret.val = [added |-> DOMAIN work \ DOMAIN last,
                         removed |-> DOMAIN last \ DOMAIN work,
                         modified |-> {q \in DOMAIN work \cap DOMAIN last :
                                          work[q] # last[q]}]

\* C14: the step that makes the RepoCache of a repository leaves in commits
\* the commits reachable from the refs, newest first.
C14_InitialOrder ==
    [][Len(heap') > Len(heap)
       => heap'[Len(heap')].commits = iter_commits_all(heap'[Len(heap')].root)]_vars

C14_Witness ==
    /\ ret.op = "RepoCache"
    /\ ret.exc = ""
    /\ heap[ret.val].commits = <<2, 1>>
    /\ heap[ret.val].latest_commit = 2

\* C15: whenever the commit log is not empty, its first entry is the latest
\* commit the cache has observed.
C15_LatestFirst ==
    \A obj \in Objs :
        heap[obj].commits # <<>> => heap[obj].commits[1] = heap[obj].latest_commit

C17_CommitByIndex ==
    ret.op = "get_commit_by_index"
    => LET log == heap[ret.obj].commits
       IN  /\ heap[ret.obj].latest_commit = gitdb[heap[ret.obj].root].head
           /\ IF 0 <= ret.index /\ ret.index < Len(log)
              THEN ret.exc = "" /\ ret.val = log[ret.index + 1]
              ELSE ret.exc = "IndexError"

C17_Witness ==
    /\ ret.op = "get_commit_by_index"
    /\ ret.grew
    /\ ret.index = 1
    /\ ret.exc = ""
    /\ ret.val = 2
    /\ heap[ret.obj].commits = <<1, 2>>

\* C18: a font opened without a commit reference has commitHash None; a
\* font opened with a commit id of the log has that id as commitHash.
C18_CommitHash ==
    (ret.op = "open_at_commit" /\ ret.exc = "")
    => commitHash(ret.val) = ret.ref

\* C19: at any time a repository has at most one instance, the one the
\* registry holds; every thread that RepoCache returned to holds the
\* registered instance of the repository of its path; and a thread that
\* waits for the lock gets it in the end.
C19_Registered ==
    /\ \A i \in 1..Len(heap), j \in 1..Len(heap) :
           heap[i].root = heap[j].root => i = j
    /\ \A i \in 1..Len(heap) :
           /\ heap[i].root \in DOMAIN GITROOT_2_CACHED_REPO
           /\ GITROOT_2_CACHED_REPO[heap[i].root] = i
    /\ \A t \in Threads :
           threads[t].obj # None
           => /\ threads[t].obj \in 1..Len(heap)
              /\ IsPrefix(heap[threads[t].obj].root, normpath(threads[t].path))

C19_NoRace ==
    /\ []C19_Registered
    /\ \A t \in Threads :
           (threads[t].pc = "lock") ~> (threads[t].pc # "lock")

C19_Witness ==
    /\ threads[1].path = <<"r">> /\ threads[2].path = <<"r", "d">>
    /\ threads[2].contended
    /\ threads[1].obj # None
    /\ threads[1].obj = threads[2].obj
    /\ Len(heap) = 1

\* C20: the commit the backend has as latest is in the commit log at most
\* once, as in every execution in which the calls run one after another.
C20_AppendedOnce ==
    \A obj \in Objs :
        Cardinality({i \in 1..Len(heap[obj].commits) :
                        heap[obj].commits[i] = gitdb[heap[obj].root].head}) <= 1

\* C21: listdir of a view on a directory of its commit returns exactly the
\* names of the entries the directory has in the tree of that commit,
\* whatever later commits added or removed.
C21_PointInTimeListing ==
    (ret.op = "listdir" /\ KindAt(ret.view, ret.path) = "tree")
    => /\ ret.exc = ""
       /\ ret.val = EntryNames(BoundTree(ret.view), InTree(ret.view, ret.path))

\* C22: opendir of a path that is a directory of the bound commit succeeds,
\* and the view it returns has the base path of the parent plus the path,
\* the commit of the parent and the RepoCache instance of the parent.
C22_OpendirSubview ==
    (ret.op = "opendir" /\ KindAt(ret.view, ret.path) = "tree")
    => /\ ret.exc = ""
       /\ ret.val = [base_path |-> ret.view.base_path \o ret.path.segs,
                     repo_cache |-> ret.view.repo_cache,
                     commit_sha |-> ret.view.commit_sha]

\* C27: with a single thread, whatever commits the backend receives and
\* whatever refreshes run, no commit id occurs twice in the commit log of
\* an instance.
C27_NoDuplicates ==
    \A obj \in DOMAIN heap :
        \A i, j \in DOMAIN heap[obj].commits :
            heap[obj].commits[i] = heap[obj].commits[j] => i = j

\* C29: a getinfo, openbin, listdir or opendir of a view that reports an
\* entry reports one that lies in the subtree of the view's base path,
\* whatever the requested path.
C29_Confinement ==
    (\/ ret.op \in {"getinfo", "openbin", "opendir"} /\ ret.exc = ""
     \/ ret.op = "listdir" /\ ret.val # {})
    => IsPrefix(normpath(ret.view.base_path), BasePlus(ret.view, ret.path))

\* C25 as stated: a construction for a root that is already registered
\* returns the registered instance without running the backend open, for a
\* path seen before and for a new path under that root alike.
C25_NoReopen ==
    [][(ret'.op = "RepoCache" /\ ret'.exc = "")
       => LET path == ret'.path
              root == IF path \in DOMAIN PATH_2_GITROOT
                      THEN PATH_2_GITROOT[path] ELSE git_Repo(path)
          IN  root \in DOMAIN GITROOT_2_CACHED_REPO
              => /\ ~ret'.opened
                 /\ ret'.val = GITROOT_2_CACHED_REPO[root]]_vars

\* C25 amended: a construction for a path seen before returns the
\* registered instance without running the backend open; a construction
\* for a new path under a registered root runs the backend open to find
\* the root, then returns the registered instance, and makes or
\* initialises no instance.
C25_ReopenForNewPath ==
    [][(ret'.op = "RepoCache" /\ ret'.exc = "")
       => LET path == ret'.path
          IN  /\ path \in DOMAIN PATH_2_GITROOT
                 => /\ ~ret'.opened
                    /\ ret'.val = GITROOT_2_CACHED_REPO[PATH_2_GITROOT[path]]
                    /\ heap' = heap
              /\ (path \notin DOMAIN PATH_2_GITROOT
                  /\ git_Repo(path) \in DOMAIN GITROOT_2_CACHED_REPO)
                 => /\ ret'.opened
                    /\ ret'.val = GITROOT_2_CACHED_REPO[git_Repo(path)]
                    /\ heap' = heap
                    /\ GITROOT_2_CACHED_REPO' = GITROOT_2_CACHED_REPO]_vars

\* After the construction for r, the construction for r/d opened the
\* backend and was answered with the instance of r, the only one made.
C25_Witness ==
    /\ ret.op = "RepoCache" /\ ret.exc = ""
    /\ ret.path = <<"r", "d">> /\ ret.opened
    /\ <<"r">> \in DOMAIN handle
    /\ ret.val = handle[<<"r">>]
    /\ Len(heap) = 1

\* C28: every root that PATH_2_GITROOT maps a path to is a key of
\* GITROOT_2_CACHED_REPO, and the instance registered under a root has
\* that root as its root.
C28_RegistryConsistent ==
    /\ \A path \in DOMAIN PATH_2_GITROOT :
           PATH_2_GITROOT[path] \in DOMAIN GITROOT_2_CACHED_REPO
    /\ \A root \in DOMAIN GITROOT_2_CACHED_REPO :
           /\ GITROOT_2_CACHED_REPO[root] \in DOMAIN heap
           /\ heap[GITROOT_2_CACHED_REPO[root]].root = root

\* Two roots are registered and three paths are mapped to them.
C28_Witness ==
    /\ DOMAIN GITROOT_2_CACHED_REPO = REPO_ROOTS
    /\ {<<"r", "d">>, <<"r", "d", "..", "g">>, <<"s", "d", "f">>}
           \subseteq DOMAIN PATH_2_GITROOT
    /\ PATH_2_GITROOT[<<"r", "d">>] = PATH_2_GITROOT[<<"r", "d", "..", "g">>]

\* C23: a construction for a path with no enclosing repository fails with
\* the exception of the backend, and the failing step leaves
\* PATH_2_GITROOT, GITROOT_2_CACHED_REPO and every instance as they were
\* and the lock free.
C23_FailedConstruction ==
    [][\A t \in Threads :
          (/\ threads[t].pc = "resolve"
           /\ threads[t].path \notin DOMAIN PATH_2_GITROOT
           /\ git_Repo(threads[t].path) = <<>>
           /\ threads'[t] # threads[t])
          => /\ threads'[t].pc = "done"
             /\ threads'[t].exc = "Exception"
             /\ threads'[t].obj = None
             /\ PATH_2_GITROOT' = PATH_2_GITROOT
             /\ GITROOT_2_CACHED_REPO' = GITROOT_2_CACHED_REPO
             /\ heap' = heap
             /\ cache_lock' = None]_vars

\* Thread 2 waited for the lock while the construction of thread 1 failed
\* in it, and was then handed an initialised instance.
C23_Witness ==
    /\ threads[1].pc = "done" /\ threads[1].exc = "Exception"
    /\ threads[1].path = <<"z">>
    /\ threads[2].contended /\ threads[2].pc = "done"
    /\ threads[2].obj # None
    /\ heap[threads[2].obj].inited

\* C24: whatever step any thread takes, a key that is in _commit_cache,
\* _tree_cache, _file_data or _changed_files of an initialised instance is
\* still there after the step, with the same value.
C24_WriteOnce ==
    [][\A obj \in DOMAIN heap :
          heap[obj].inited
          => /\ \A k \in DOMAIN heap[obj].commit_cache :
                    /\ k \in DOMAIN heap'[obj].commit_cache
                    /\ heap'[obj].commit_cache[k] = heap[obj].commit_cache[k]
             /\ \A k \in DOMAIN heap[obj].tree_cache :
                    /\ k \in DOMAIN heap'[obj].tree_cache
                    /\ heap'[obj].tree_cache[k] = heap[obj].tree_cache[k]
             /\ \A k \in DOMAIN heap[obj].file_data :
                    /\ k \in DOMAIN heap'[obj].file_data
                    /\ heap'[obj].file_data[k] = heap[obj].file_data[k]
             /\ \A k \in DOMAIN heap[obj].changed_files :
                    /\ k \in DOMAIN heap'[obj].changed_files
                    /\ heap'[obj].changed_files[k] = heap[obj].changed_files[k]
      ]_vars

\* C26: a thread that RepoCache(path) has returned an instance to holds an
\* instance whose attributes are set and whose commit log was populated,
\* and the log of no instance holds a commit twice.
C26_InitialisedOnce ==
    /\ \A t \in Threads :
           (threads[t].pc = "done" /\ threads[t].obj # None)
           => /\ heap[threads[t].obj].inited
              /\ heap[threads[t].obj].latest_commit # None
              /\ heap[threads[t].obj].commits # <<>>
    /\ \A obj \in DOMAIN heap :
           \A i, j \in DOMAIN heap[obj].commits :
               heap[obj].commits[i] = heap[obj].commits[j] => i = j

\* C30: getting a layer whose name is in the LayerSet returns the Layer of
\* that name, loaded from the reader if it was not loaded yet; afterwards
\* the LayerSet maps the same names in the same order and holds the
\* loaded Layer, so that the next access returns it without loading.
C30_LazyLoad ==
    (ret.op = "getitem" /\ ret.name \in DOMAIN ret.before.layers)
    => /\ ret.exc = ""
       /\ ret.val.name = ret.name
       /\ ret.val # LAYER_NOT_LOADED
       /\ layerset.layers[ret.name] = ret.val
       /\ DOMAIN layerset.layers = DOMAIN ret.before.layers
       /\ layerset.order = ret.before.order

====
